---------------------------- MODULE Spec2Model ----------------------------
(***************************************************************************)
(* ShortsStash (src/main.mjs): the batch driver runAutomation, the channel *)
(* runner processChannel with findNewVideos, and the acquisition           *)
(* downloadAndProcessVideo with its two download subprocesses, the         *)
(* transcoder and the removal of the temporary files.                      *)
(*                                                                         *)
(* Two levels share the variables.  Spec and SpecBatch run the batch and   *)
(* the channel runner; there an acquisition is a call and a return, since  *)
(* downloadAndProcessVideo returns nothing and never throws.  SpecAcq runs *)
(* the acquisition itself, subprocess by subprocess.                       *)
(***************************************************************************)
EXTENDS Integers, Sequences, FiniteSets, TLC

(***************************************************************************)
(* Bounds of the model.                                                    *)
(***************************************************************************)
\* Runs of runAutomation (cron ticks or one-shot starts) a behaviour holds.
MaxRuns == 2
\* Entries one Lister call returns (the model's stand-in for the window
\* --playlist-items 1-VIDEOS_TO_INSPECT).
MaxListing == 2
\* Acquisitions started one after another in SpecAcq.
MaxAcq == 2
\* Runs of runAutomation in the behaviours over the one-video channels B and
\* C: a channel is configured, removed and configured again.
MaxBatchRuns == 3
\* Times the cron callback fires in SpecCron.
MaxTriggers == 2

(***************************************************************************)
(* Program constants.                                                      *)
(***************************************************************************)
\* src/config.mjs: DOWNLOAD_AFTER_DATE = '20250701'.  Upload dates are
\* YYYYMMDD strings of equal length, so the string order used by the code
\* (the < of line 226, localeCompare of line 128) is the order of the numbers.
DOWNLOAD_AFTER_DATE == 20250701
\* A missing upload_date (undefined, null or ''): falsy in main.mjs line 226.
NoDate == 0
\* last_video_id of a channel that was never advanced (SQL NULL, falsy in JS).
NULL == "null"

Views == {"videos", "shorts"}
Streams == {"video", "audio"}

(***************************************************************************)
(* The environment: what the Lister can return for a channel.  Each channel *)
(* has a timeline, newest first; a view's listing in a run is at most      *)
(* MaxListing of its videos in timeline order (videos may be missing:      *)
(* deleted, private, outside the window, or not in that tab).              *)
(***************************************************************************)
Video(id, date, duration, width, height) ==
    [id |-> id, upload_date |-> date, duration |-> duration,
     width |-> width, height |-> height, tab |-> "videos"]

\* Channel A: a short on the floor date with the boundary duration 180, and a
\* short and a normal video of the same day.
\* Channels B and C have one video each (a short, a normal video).
\* Channel D: a vertical video of 180 seconds, a square one and a short below
\* the date floor.
Timeline(url) ==
    CASE url = "A" -> << Video("a4", 20250702, 181, 50, 100),
                         Video("a3", 20250702, 90, 720, 1280),
                         Video("a2", 20250701, 180, 50, 100) >>
      [] url = "B" -> << Video("b1", 20250702, 90, 720, 1280) >>
      [] url = "C" -> << Video("c1", 20250702, 600, 1280, 720) >>
      [] url = "D" -> << Video("d2", 20250703, 180, 50, 100),
                         Video("d1", 20250702, 90, 720, 720),
                         Video("d0", 20250630, 60, 720, 1280) >>
      [] OTHER -> << >>

AllVideos == UNION { { Timeline(u)[i] : i \in DOMAIN Timeline(u) } : u \in {"A", "B", "C", "D"} }

\* The upload date of the video an id names; a NULL cursor is before every date.
DateOfId(id) ==
    IF \E v \in AllVideos : v.id = id
    THEN (CHOOSE v \in AllVideos : v.id = id).upload_date
    ELSE NoDate

RECURSIVE SubSeqs(_, _)
\* The subsequences of s (order kept) of at most k elements.
SubSeqs(s, k) ==
    IF s = << >> \/ k = 0 THEN { << >> }
    ELSE SubSeqs(Tail(s), k) \cup { << Head(s) >> \o t : t \in SubSeqs(Tail(s), k - 1) }

\* The metadata one Lister call may report for a video.  Each call extracts
\* it anew, so two calls need not agree: d2 is reported with duration 180 or
\* 181, d0 with its upload date or without one.
Reported(v) ==
    CASE v.id = "d2" -> { v, [v EXCEPT !.duration = 181] }
      [] v.id = "d0" -> { v, [v EXCEPT !.upload_date = NoDate] }
      [] OTHER -> { v }

RECURSIVE ReportedSeqs(_)
\* The entry sequences a call may report for the videos s.
ReportedSeqs(s) ==
    IF s = << >> THEN { << >> }
    ELSE { << r >> \o t : r \in Reported(Head(s)), t \in ReportedSeqs(Tail(s)) }

\* What the Lister may return for one tab of a channel: the entries carry the tab.
Listings(url, view) ==
    { [i \in DOMAIN e |-> [e[i] EXCEPT !.tab = view]] :
        e \in UNION { ReportedSeqs(s) : s \in SubSeqs(Timeline(url), MaxListing) } }

(***************************************************************************)
(* Pure functions of main.mjs.                                             *)
(***************************************************************************)
Range(s) == { s[i] : i \in DOMAIN s }
Ids(s) == { s[i].id : i \in DOMAIN s }

\* A faulty variant of IsShort: a square video counts as vertical.
IsShortSquare(v) == v.duration < 181 /\ v.width <= v.height

\* A faulty variant of IsShort: 181 seconds still count as short.
IsShortLong(v) == v.duration < 182 /\ v.width < v.height

\* main.mjs 137, 232: v.duration < 181 && v.width < v.height
IsShort(v) == v.duration < 181 /\ v.width < v.height
IsNormal(v) == ~ IsShort(v)

\* A faulty variant of PassesFloor: an entry without upload_date is kept.
PassesFloorUndated(v, afterDate) == v.upload_date = NoDate \/ ~ (v.upload_date < afterDate)

\* main.mjs 226: an entry without upload_date, or dated before afterDate, is dropped.
PassesFloor(v, afterDate) == v.upload_date # NoDate /\ ~ (v.upload_date < afterDate)

\* The ids of the entries the loop of lines 225-230 skips.
Skipped(entries, afterDate) ==
    { entries[i].id : i \in { j \in DOMAIN entries : ~ PassesFloor(entries[j], afterDate) } }

EmptyResult == [shorts |-> << >>, normalVideos |-> << >>]

\* main.mjs 203-236: findNewVideos on the Lister's outcome (failed, or its entries).
FindNewVideos(failed, entries, afterDate) ==
    IF failed \/ entries = << >> THEN EmptyResult
    ELSE LET allFoundVideos == SelectSeq(entries, LAMBDA v : PassesFloor(v, afterDate))
         IN [shorts |-> SelectSeq(allFoundVideos, IsShort),
             normalVideos |-> SelectSeq(allFoundVideos, IsNormal)]

\* main.mjs 115-118: the order in which the four result lists enter the map.
CombinedResults(videosResult, shortsResult) ==
    videosResult.shorts \o shortsResult.shorts
      \o videosResult.normalVideos \o shortsResult.normalVideos

\* A faulty variant of MapSet: every value is appended, known key or not, as
\* a merge by concatenation would.
MapSetAppend(m, v) == Append(m, v)

\* Map.prototype.set: a new key is appended, a known key keeps its place and
\* takes the new value.
MapSet(m, v) ==
    IF \E i \in DOMAIN m : m[i].id = v.id
    THEN [i \in DOMAIN m |-> IF m[i].id = v.id THEN v ELSE m[i]]
    ELSE Append(m, v)

RECURSIVE MapOf(_, _)
\* main.mjs 119-121: the loop over combinedResults, from the map m.
MapOf(m, combined) ==
    IF combined = << >> THEN m ELSE MapOf(MapSet(m, Head(combined)), Tail(combined))

\* main.mjs 114-121: Array.from(uniqueVideos.values()), in insertion order.
UniqueVideos(videosResult, shortsResult) ==
    MapOf(<< >>, CombinedResults(videosResult, shortsResult))

\* A faulty variant of InsertSorted: v goes before the elements of its own
\* upload_date, as a sort that is not stable may put it.
InsertSortedUnstable(s, v) ==
    LET k == Cardinality({ i \in DOMAIN s : s[i].upload_date > v.upload_date })
    IN SubSeq(s, 1, k) \o << v >> \o SubSeq(s, k + 1, Len(s))

\* One step of a stable sort, newest first: v goes after every element whose
\* upload_date is not older than its own.
InsertSorted(s, v) ==
    LET k == Cardinality({ i \in DOMAIN s : s[i].upload_date >= v.upload_date })
    IN SubSeq(s, 1, k) \o << v >> \o SubSeq(s, k + 1, Len(s))

RECURSIVE SortFrom(_, _)
SortFrom(acc, s) ==
    IF s = << >> THEN acc ELSE SortFrom(InsertSorted(acc, Head(s)), Tail(s))

\* main.mjs 128: sort((a, b) => b.upload_date.localeCompare(a.upload_date)),
\* Array.prototype.sort being stable.
SortedVideos(unique) == SortFrom(<< >>, unique)

\* A faulty variant of LastIdIndex: the cursor is never found.
LastIdIndexNone(sorted, last_video_id) == 0

\* main.mjs 129: findIndex, as a 1-based position; 0 stands for -1.
LastIdIndex(sorted, last_video_id) ==
    IF last_video_id # NULL /\ \E i \in DOMAIN sorted : sorted[i].id = last_video_id
    THEN CHOOSE i \in DOMAIN sorted :
           /\ sorted[i].id = last_video_id
           /\ \A j \in DOMAIN sorted : sorted[j].id = last_video_id => i <= j
    ELSE 0

\* A faulty variant of NewVideos: the cut keeps the cursor's video.
NewVideosInclusive(sorted, last_video_id) ==
    LET i == LastIdIndex(sorted, last_video_id)
    IN IF i # 0 THEN SubSeq(sorted, 1, i) ELSE sorted

\* main.mjs 130: sortedVideos.slice(0, lastIdIndex), or all of it.
NewVideos(sorted, last_video_id) ==
    LET i == LastIdIndex(sorted, last_video_id)
    IN IF i # 0 THEN SubSeq(sorted, 1, i - 1) ELSE sorted

\* Array.prototype.slice(0, n) for an integer n (a negative n counts from the end).
Slice0(s, n) ==
    IF n >= 0 THEN SubSeq(s, 1, IF n < Len(s) THEN n ELSE Len(s))
    ELSE SubSeq(s, 1, IF Len(s) + n > 0 THEN Len(s) + n ELSE 0)

(***************************************************************************)
(* State.                                                                  *)
(***************************************************************************)
VARIABLES
    \* The process and the store.
    config,            \* CHANNELS_TO_CHECK of the running process, an array of urls
    mode,              \* ENABLE_SCHEDULER, SKIP_NORMAL_VIDEOS and settings.normal_video_mode
    channels,          \* table channels, rows in rowid order
    videos,            \* table videos, a set of rows (id is the primary key)
    \* runAutomation.
    runs,              \* runs of runAutomation started so far
    rpc,               \* "idle" | "sync" | "loop"
    channelsToProcess, \* the rows of line 79 not yet processed
    \* processChannel.
    ppc,               \* "none" | "fetch" | "shorts" | "policy" | "prompt" | "normals" | "cursor" | "returned" | "thrown"
    channel,           \* << >> or << the row passed to processChannel >>
    pendingViews,      \* the views whose findNewVideos call has not returned
    results,           \* view -> the result of findNewVideos
    sortedVideos, newVideos, shorts, normalVideos, newLatestId,
    videosToDownload,  \* the normal videos chosen at the checkbox prompt (line 170)
    queue,             \* the videos the current for-loop has still to take
    acq,               \* << >> or << the video downloadAndProcessVideo was called with >>
    acqState,          \* "none" | "running" | "returned"
    lastOutcome,       \* how the last acquisition ended
    \* History, for the properties only.
    batch,             \* ids of the rows selected at line 79 in the last run
    invoked,           \* channel ids processChannel was called with in the last run
    thrown,            \* channel ids whose processChannel threw in the last run
    deactivated,       \* ids of the rows a sync step has set inactive so far
    failedViews,       \* views whose Lister call failed in this channel run
    arrival,           \* the views in the order their findNewVideos calls returned
    dropped,           \* ids of the entries line 226 has skipped in this channel run
    seen,              \* url -> ids merged by an earlier channel run that returned
    acquired,          \* url -> ids acquired successfully and recorded in an earlier channel run
    attempted,         \* ids downloadAndProcessVideo was called with in this channel run, in call order
    insertLog,         \* [id, outcome] of the rows this channel run inserted
    cursorWrites,      \* writes of last_video_id in this channel run
    \* downloadAndProcessVideo, subprocess by subprocess (SpecAcq).
    nacq,              \* acquisitions called so far; the current one's tempId
    apc,               \* "idle" | "downloading" | "transcoding" | "unlink_video" | "unlink_audio" | "returned"
    procs,             \* <<tempId, stream>> -> "none" | "running" | "ok" | "failed"
    files,             \* the temporary files that exist, as <<tempId, stream>>
    transcode,         \* tempId -> "none" | "running" | "ok" | "failed"
    TARGET_FORMAT,     \* config.mjs: the output format the process was configured with
    ffmpegArgs,        \* tempId -> the arguments ffmpeg was spawned with, << >> before
    \* The scheduler (startApp).
    triggers,          \* times the cron callback has fired
    jobs,              \* trigger -> the runAutomation call it made
    outputs,           \* tempIds whose output file was produced
    settled            \* tempId -> "pending" | "resolved" | "rejected": the promise of the call

cronVars == << triggers, jobs >>
storeVars == << config, mode, channels, videos, cronVars >>
runVars == << runs, rpc, channelsToProcess, deactivated >>
batchHist == << batch, invoked, thrown >>
fetchVars == << pendingViews, results, failedViews, arrival, dropped >>
mergeVars == << sortedVideos, newVideos, shorts, normalVideos, newLatestId >>
loopVars == << queue, acq, acqState, lastOutcome, attempted >>
chanHist == << seen, acquired, insertLog, cursorWrites >>
chanVars == << ppc, channel, fetchVars, mergeVars, videosToDownload, loopVars, chanHist >>
acqVars == << nacq, apc, procs, files, transcode, outputs, settled, TARGET_FORMAT,
             ffmpegArgs >>
vars == << storeVars, runVars, batchHist, chanVars, acqVars >>

Urls == {"A", "B", "C", "D"}

\* How the process was started: scheduler mode with the stored preference
\* 'ask' or 'skip' (configureNormalVideoMode leaves no other value), or
\* one-shot mode with or without --skip-videos.
ProcessModes ==
    { [ENABLE_SCHEDULER |-> TRUE, SKIP_NORMAL_VIDEOS |-> FALSE, normal_video_mode |-> "ask"],
      [ENABLE_SCHEDULER |-> TRUE, SKIP_NORMAL_VIDEOS |-> FALSE, normal_video_mode |-> "skip"],
      [ENABLE_SCHEDULER |-> FALSE, SKIP_NORMAL_VIDEOS |-> TRUE, normal_video_mode |-> "prompt"],
      [ENABLE_SCHEDULER |-> FALSE, SKIP_NORMAL_VIDEOS |-> FALSE, normal_video_mode |-> "prompt"] }

\* How a call of downloadAndProcessVideo can end.
Outcomes == {"ok", "download_failed", "transcode_failed"}

AcqIds == 1 .. MaxAcq

JobIds == 1 .. MaxTriggers

\* A runAutomation call the cron callback has not made yet.
NoJob == [pc |-> "none", channelsToProcess |-> << >>, channel |-> << >>, video |-> NULL]

InitChannelRun ==
    /\ ppc = "none"
    /\ channel = << >>
    /\ pendingViews = {}
    /\ results = [v \in Views |-> EmptyResult]
    /\ failedViews = {}
    /\ arrival = << >>
    /\ dropped = {}
    /\ sortedVideos = << >>
    /\ newVideos = << >>
    /\ shorts = << >>
    /\ normalVideos = << >>
    /\ newLatestId = NULL
    /\ videosToDownload = << >>
    /\ queue = << >>
    /\ acq = << >>
    /\ acqState = "none"
    /\ lastOutcome = "none"
    /\ attempted = << >>
    /\ insertLog = {}
    /\ cursorWrites = 0

\* No acquisition has been called; the process runs with one of the given
\* values of TARGET_FORMAT.
InitAcqWith(formats) ==
    /\ nacq = 0
    /\ apc = "idle"
    /\ procs = [k \in AcqIds \X Streams |-> "none"]
    /\ files = {}
    /\ transcode = [n \in AcqIds |-> "none"]
    /\ outputs = {}
    /\ settled = [n \in AcqIds |-> "pending"]
    /\ TARGET_FORMAT \in formats
    /\ ffmpegArgs = [n \in AcqIds |-> << >>]

\* config.mjs line 54: TARGET_FORMAT = 'amv'.
InitAcq == InitAcqWith({"amv"})

\* The state after construction: database.mjs has created empty tables.
InitStore ==
    /\ channels = << >>
    /\ videos = {}
    /\ runs = 0
    /\ rpc = "idle"
    /\ channelsToProcess = << >>
    /\ batch = {}
    /\ invoked = {}
    /\ thrown = {}
    /\ deactivated = {}
    /\ seen = [u \in Urls |-> {}]
    /\ acquired = [u \in Urls |-> {}]
    /\ mode \in ProcessModes
    /\ triggers = 0
    /\ jobs = [j \in JobIds |-> NoJob]

(***************************************************************************)
(* The store operations runAutomation issues while it syncs (lines 58-79). *)
(***************************************************************************)
HasUrl(table, url) == \E i \in DOMAIN table : table[i].url = url

\* A faulty variant of InsertChannel: a plain INSERT, a row per call.
InsertChannelAgain(table, url) ==
    Append(table, [id |-> Len(table) + 1, url |-> url,
                   last_video_id |-> NULL, is_active |-> 1])

\* INSERT OR IGNORE INTO channels(url): a new row takes the next rowid, no
\* cursor and the column default is_active = 1.
InsertChannel(table, url) ==
    IF HasUrl(table, url) THEN table
    ELSE Append(table, [id |-> Len(table) + 1, url |-> url,
                        last_video_id |-> NULL, is_active |-> 1])

\* A faulty variant of SetActiveByUrl: the row's flag is flipped, not set.
SetActiveByUrlFlip(table, url, flag) ==
    [i \in DOMAIN table |->
       IF table[i].url = url THEN [table[i] EXCEPT !.is_active = 1 - @] ELSE table[i]]

\* UPDATE channels SET is_active = flag WHERE url = ?
SetActiveByUrl(table, url, flag) ==
    [i \in DOMAIN table |->
       IF table[i].url = url THEN [table[i] EXCEPT !.is_active = flag] ELSE table[i]]

\* A faulty variant of SetActiveById: the row's cursor is cleared as well.
SetActiveByIdReset(table, id, flag) ==
    [i \in DOMAIN table |->
       IF table[i].id = id
       THEN [table[i] EXCEPT !.is_active = flag, !.last_video_id = NULL]
       ELSE table[i]]

\* UPDATE channels SET is_active = flag WHERE id = ?
SetActiveById(table, id, flag) ==
    [i \in DOMAIN table |->
       IF table[i].id = id THEN [table[i] EXCEPT !.is_active = flag] ELSE table[i]]

\* UPDATE channels SET last_video_id = ? WHERE id = ?
SetCursor(table, id, last) ==
    [i \in DOMAIN table |->
       IF table[i].id = id THEN [table[i] EXCEPT !.last_video_id = last] ELSE table[i]]

\* SELECT * FROM channels WHERE is_active = 1
ActiveChannels(table) == SelectSeq(table, LAMBDA row : row.is_active = 1)

InConfig(cfg, url) == \E i \in DOMAIN cfg : cfg[i] = url

RECURSIVE UrlOps(_)
\* Lines 61-66: per configured url, the insert and then the reactivation.
UrlOps(cfg) ==
    IF cfg = << >> THEN << >>
    ELSE << [op |-> "insert", url |-> Head(cfg), id |-> 0],
            [op |-> "activate", url |-> Head(cfg), id |-> 0] >> \o UrlOps(Tail(cfg))

\* Lines 69-76: one deactivation per row of dbChannels whose url is not configured.
DeactivateOps(dbChannels, cfg) ==
    LET gone == SelectSeq(dbChannels, LAMBDA row : ~ InConfig(cfg, row.url))
    IN [i \in DOMAIN gone |-> [op |-> "deactivate", url |-> gone[i].url, id |-> gone[i].id]]

\* The store calls of lines 58-79 in order: the first SELECT, the writes, the
\* SELECT of the active rows.
SyncOps(dbChannels, cfg) ==
    << [op |-> "all", url |-> "", id |-> 0] >>
      \o UrlOps(cfg) \o DeactivateOps(dbChannels, cfg)
      \o << [op |-> "select_active", url |-> "", id |-> 0] >>

ApplyOp(table, o) ==
    CASE o.op = "insert" -> InsertChannel(table, o.url)
      [] o.op = "activate" -> SetActiveByUrl(table, o.url, 1)
      [] o.op = "deactivate" -> SetActiveById(table, o.id, 0)
      [] OTHER -> table

RECURSIVE ApplyOps(_, _)
ApplyOps(table, ops) ==
    IF ops = << >> THEN table ELSE ApplyOps(ApplyOp(table, Head(ops)), Tail(ops))

(***************************************************************************)
(* runAutomation (lines 51-97).                                            *)
(***************************************************************************)
\* The runs a behaviour holds: MaxBatchRuns over the one-video channels,
\* MaxRuns over the channels with a longer timeline.
RunBound ==
    IF \A i \in DOMAIN config : config[i] \in {"B", "C"} THEN MaxBatchRuns ELSE MaxRuns

\* A cron tick of startApp (line 426) or the one-shot call (line 441).
RunStart ==
    /\ rpc = "idle"
    /\ runs < RunBound
    /\ runs' = runs + 1
    /\ rpc' = "sync"
    /\ batch' = {}
    /\ invoked' = {}
    /\ thrown' = {}
    /\ UNCHANGED << storeVars, channelsToProcess, deactivated, chanVars, acqVars >>

\* The rows of table that are active and are inactive in newTable.
NewlyInactive(table, newTable) ==
    { table[i].id : i \in { j \in DOMAIN table : table[j].is_active = 1
                                                  /\ newTable[j].is_active = 0 } }

\* Lines 57-80 with every store call succeeding.
Sync ==
    /\ rpc = "sync"
    /\ LET table == ApplyOps(channels, SyncOps(channels, config))
       IN /\ channels' = table
          /\ channelsToProcess' = ActiveChannels(table)
          /\ batch' = { row.id : row \in Range(ActiveChannels(table)) }
          /\ deactivated' = deactivated \cup NewlyInactive(channels, table)
    /\ rpc' = "loop"
    /\ UNCHANGED << config, mode, cronVars, videos, runs, invoked, thrown, chanVars, acqVars >>

\* Lines 57-80 with the k-th store call rejecting: the calls before it have
\* taken effect, the catch of line 90 logs, and the run ends.
SyncFail ==
    /\ rpc = "sync"
    /\ \E k \in DOMAIN SyncOps(channels, config) :
         channels' = ApplyOps(channels, SubSeq(SyncOps(channels, config), 1, k - 1))
    /\ deactivated' = deactivated \cup NewlyInactive(channels, channels')
    /\ rpc' = "idle"
    /\ UNCHANGED << config, mode, cronVars, videos, runs, channelsToProcess, batchHist, chanVars,
                    acqVars >>

\* Lines 82-86: the loop takes the next row and calls processChannel, which
\* starts both findNewVideos calls (Promise.all of lines 109-112).
CallChannel ==
    /\ rpc = "loop"
    /\ ppc = "none"
    /\ channelsToProcess # << >>
    /\ channel' = << Head(channelsToProcess) >>
    /\ invoked' = invoked \cup { Head(channelsToProcess).id }
    /\ pendingViews' = Views
    /\ ppc' = "fetch"
    /\ UNCHANGED << storeVars, runVars, batch, thrown, results, failedViews, arrival, dropped,
                    mergeVars, videosToDownload, loopVars, chanHist, acqVars >>

\* The locals of a finished processChannel call are dropped; the ids it
\* acquired and recorded go to the history.
EndChannelRun ==
    /\ ppc' = "none"
    /\ channel' = << >>
    /\ pendingViews' = {}
    /\ results' = [v \in Views |-> EmptyResult]
    /\ failedViews' = {}
    /\ arrival' = << >>
    /\ dropped' = {}
    /\ sortedVideos' = << >>
    /\ newVideos' = << >>
    /\ shorts' = << >>
    /\ normalVideos' = << >>
    /\ newLatestId' = NULL
    /\ videosToDownload' = << >>
    /\ queue' = << >>
    /\ acq' = << >>
    /\ acqState' = "none"
    /\ lastOutcome' = "none"
    /\ attempted' = << >>
    /\ insertLog' = {}
    /\ cursorWrites' = 0
    /\ acquired' = [acquired EXCEPT ![channel[1].url] =
                      @ \cup { r.id : r \in { x \in insertLog : x.outcome = "ok" } }]

\* Line 86 returns: the loop goes on with the next row.
ChannelReturn ==
    /\ rpc = "loop"
    /\ ppc = "returned"
    /\ channelsToProcess' = Tail(channelsToProcess)
    /\ EndChannelRun
    /\ seen' = [seen EXCEPT ![channel[1].url] = @ \cup Ids(sortedVideos)]
    /\ UNCHANGED << storeVars, runs, rpc, deactivated, batchHist, acqVars >>

\* A faulty variant of ChannelThrow: nothing catches the rejection of
\* processChannel, and runAutomation stays where it was.
ChannelThrowUncaught ==
    /\ rpc = "loop"
    /\ ppc = "thrown"
    /\ UNCHANGED vars

\* Line 86 throws: the catch of line 90 is outside the loop, so the run ends
\* with the rows that were still to come unprocessed.
ChannelThrow ==
    /\ rpc = "loop"
    /\ ppc = "thrown"
    /\ thrown' = thrown \cup { channel[1].id }
    /\ channelsToProcess' = << >>
    /\ rpc' = "idle"
    /\ EndChannelRun
    /\ UNCHANGED << storeVars, runs, deactivated, batch, invoked, seen, acqVars >>

\* Line 89: every row was processed; the run ends (finally of lines 92-96).
RunComplete ==
    /\ rpc = "loop"
    /\ ppc = "none"
    /\ channelsToProcess = << >>
    /\ rpc' = "idle"
    /\ UNCHANGED << storeVars, runs, channelsToProcess, deactivated, batchHist, chanVars,
                    acqVars >>

(***************************************************************************)
(* processChannel (lines 104-198).                                         *)
(***************************************************************************)
\* A faulty variant of ListerReturn: findNewVideos without the catch of line
\* 217.  A failing Lister call rejects, Promise.all rejects with it, the
\* sibling's result is dropped and processChannel throws.
ListerReturnNoCatch ==
    /\ ppc = "fetch"
    /\ \E view \in pendingViews :
         \/ /\ pendingViews' = {}
            /\ failedViews' = failedViews \cup {view}
            /\ ppc' = "thrown"
            /\ UNCHANGED << results, arrival, dropped >>
         \/ /\ pendingViews' = pendingViews \ {view}
            /\ arrival' = Append(arrival, view)
            /\ \E entries \in Listings(channel[1].url, view) :
                  /\ results' = [results EXCEPT ![view] =
                                   FindNewVideos(FALSE, entries, DOWNLOAD_AFTER_DATE)]
                  /\ dropped' = dropped \cup Skipped(entries, DOWNLOAD_AFTER_DATE)
            /\ UNCHANGED << failedViews, ppc >>
    /\ UNCHANGED << storeVars, runVars, batchHist, channel, mergeVars,
                    videosToDownload, loopVars, chanHist, acqVars >>

\* One findNewVideos call returns (lines 203-236): the Lister failed (catch of
\* line 217) or it gave its entries.  The sibling call is not touched.
ListerReturn ==
    /\ ppc = "fetch"
    /\ \E view \in pendingViews :
         /\ pendingViews' = pendingViews \ {view}
         /\ arrival' = Append(arrival, view)
         /\ \/ /\ results' = [results EXCEPT ![view] =
                                FindNewVideos(TRUE, << >>, DOWNLOAD_AFTER_DATE)]
               /\ failedViews' = failedViews \cup {view}
               /\ UNCHANGED dropped
            \/ /\ \E entries \in Listings(channel[1].url, view) :
                    /\ results' = [results EXCEPT ![view] =
                                     FindNewVideos(FALSE, entries, DOWNLOAD_AFTER_DATE)]
                    /\ dropped' = dropped \cup Skipped(entries, DOWNLOAD_AFTER_DATE)
               /\ UNCHANGED failedViews
    /\ UNCHANGED << storeVars, runVars, batchHist, ppc, channel, mergeVars,
                    videosToDownload, loopVars, chanHist, acqVars >>

\* A faulty variant of NewLatestId: the oldest of the new videos.
NewLatestIdOldest(new) == new[Len(new)].id

\* Line 139: the id the cursor is to be advanced to.
NewLatestId(new) == new[1].id

\* A faulty variant of Merge: the two results are taken in the order the calls
\* returned.
MergeByArrival ==
    /\ ppc = "fetch"
    /\ pendingViews = {}
    /\ LET unique == UniqueVideos(results[arrival[1]], results[arrival[2]])
           sorted == SortedVideos(unique)
           new == NewVideos(sorted, channel[1].last_video_id)
       IN /\ sortedVideos' = sorted
          /\ arrival' = << >>
          /\ IF Len(unique) = 0 \/ Len(new) = 0
             THEN /\ ppc' = "returned"
                  /\ UNCHANGED << newVideos, shorts, normalVideos, newLatestId, queue >>
             ELSE /\ newVideos' = new
                  /\ shorts' = SelectSeq(new, IsShort)
                  /\ normalVideos' = SelectSeq(new, IsNormal)
                  /\ newLatestId' = NewLatestId(new)
                  /\ queue' = SelectSeq(new, IsShort)
                  /\ ppc' = IF SelectSeq(new, IsShort) # << >> THEN "shorts" ELSE "policy"
    /\ UNCHANGED << storeVars, runVars, batchHist, channel, pendingViews, results,
                    failedViews, dropped, videosToDownload, acq, acqState, lastOutcome, attempted, chanHist, acqVars >>

\* Lines 114-139, after both calls have returned: merge, sort, cut at the
\* cursor, classify; the two early returns of lines 123 and 132.  Promise.all
\* gives the results in the order of its arguments (videosResult, shortsResult),
\* not in the order the calls returned, which is of no use from here on.
Merge ==
    /\ ppc = "fetch"
    /\ pendingViews = {}
    /\ LET unique == UniqueVideos(results["videos"], results["shorts"])
           sorted == SortedVideos(unique)
           new == NewVideos(sorted, channel[1].last_video_id)
       IN /\ sortedVideos' = sorted
          /\ arrival' = << >>
          /\ IF Len(unique) = 0 \/ Len(new) = 0
             THEN /\ ppc' = "returned"
                  /\ UNCHANGED << newVideos, shorts, normalVideos, newLatestId, queue >>
             ELSE /\ newVideos' = new
                  /\ shorts' = SelectSeq(new, IsShort)
                  /\ normalVideos' = SelectSeq(new, IsNormal)
                  /\ newLatestId' = NewLatestId(new)
                  /\ queue' = SelectSeq(new, IsShort)
                  /\ ppc' = IF SelectSeq(new, IsShort) # << >> THEN "shorts" ELSE "policy"
    /\ UNCHANGED << storeVars, runVars, batchHist, channel, pendingViews, results,
                    failedViews, dropped, videosToDownload, acq, acqState, lastOutcome, attempted, chanHist, acqVars >>

\* Lines 144 and 184: the loop takes its next video and calls
\* downloadAndProcessVideo.
AcqStart ==
    /\ ppc \in {"shorts", "normals"}
    /\ acqState = "none"
    /\ queue # << >>
    /\ acq' = << Head(queue) >>
    /\ queue' = Tail(queue)
    /\ acqState' = "running"
    /\ attempted' = Append(attempted, Head(queue).id)
    /\ UNCHANGED << storeVars, runVars, batchHist, ppc, channel, fetchVars, mergeVars,
                    videosToDownload, lastOutcome, chanHist, acqVars >>

\* Lines 243-276 as processChannel sees them: the call returns, with nothing,
\* whether the downloads and the transcoder succeeded or an error was caught
\* at line 270.
AcqReturn ==
    /\ acqState = "running"
    /\ \E outcome \in Outcomes : lastOutcome' = outcome
    /\ acqState' = "returned"
    /\ UNCHANGED << storeVars, runVars, batchHist, ppc, channel, fetchVars, mergeVars,
                    videosToDownload, queue, acq, attempted, chanHist, acqVars >>

\* A faulty variant of AfterVideo: the loop is left when an acquisition failed.
AfterVideoStopOnFailure ==
    IF queue # << >> /\ lastOutcome = "ok" THEN ppc
    ELSE IF ppc = "shorts" THEN "policy" ELSE "cursor"

\* A faulty variant of AfterVideo: the loop is left after its first video.
AfterVideoEarly == IF ppc = "shorts" THEN "policy" ELSE "cursor"

\* Where the for-loop of lines 143-146 or 183-186 stands once the video in
\* hand is done: at its next video, or past its end.
AfterVideo == IF queue # << >> THEN ppc ELSE IF ppc = "shorts" THEN "policy" ELSE "cursor"

\* Lines 145 and 185: INSERT OR IGNORE INTO videos, after the call returned.
InsertVideo ==
    /\ acqState = "returned"
    /\ LET video == acq[1]
           fresh == ~ \E row \in videos : row.id = video.id
       IN /\ videos' = IF fresh
                       THEN videos \cup { [id |-> video.id, channel_id |-> channel[1].id,
                                          upload_date |-> video.upload_date] }
                       ELSE videos
          /\ insertLog' = IF fresh
                          THEN insertLog \cup { [id |-> video.id, outcome |-> lastOutcome] }
                          ELSE insertLog
    /\ acq' = << >>
    /\ acqState' = "none"
    /\ ppc' = AfterVideo
    /\ UNCHANGED << config, mode, cronVars, channels, runVars, batchHist, channel, fetchVars,
                    mergeVars, videosToDownload, queue, lastOutcome, attempted, seen,
                    acquired, cursorWrites, acqVars >>

\* Lines 145 and 185 with the store rejecting: processChannel throws.
InsertVideoFail ==
    /\ acqState = "returned"
    /\ acq' = << >>
    /\ acqState' = "none"
    /\ ppc' = "thrown"
    /\ UNCHANGED << storeVars, runVars, batchHist, channel, fetchVars, mergeVars,
                    videosToDownload, queue, lastOutcome, attempted, chanHist, acqVars >>

\* A faulty variant of SkipNormalVideos: the flag is consulted in both modes,
\* the stored setting never.
SkipNormalVideosFlagOnly == mode.SKIP_NORMAL_VIDEOS

\* Lines 149-155: skipNormalVideos.
SkipNormalVideos ==
    IF mode.ENABLE_SCHEDULER THEN mode.normal_video_mode = "skip"
    ELSE mode.SKIP_NORMAL_VIDEOS

\* Lines 149-157 and 189-192: the policy is read and the branch taken.
ReadPolicy ==
    /\ ppc = "policy"
    /\ ppc' = IF normalVideos # << >> /\ ~ SkipNormalVideos THEN "prompt" ELSE "cursor"
    /\ UNCHANGED << storeVars, runVars, batchHist, channel, fetchVars, mergeVars,
                    videosToDownload, loopVars, chanHist, acqVars >>

\* Line 151 with the store rejecting (scheduler mode only): processChannel throws.
ReadPolicyFail ==
    /\ ppc = "policy"
    /\ mode.ENABLE_SCHEDULER
    /\ ppc' = "thrown"
    /\ UNCHANGED << storeVars, runVars, batchHist, channel, fetchVars, mergeVars,
                    videosToDownload, loopVars, chanHist, acqVars >>

\* Lines 159-182: the count prompt (any integer passes validate), then, if
\* some videos are shown, the checkbox prompt, which gives the chosen videos
\* in the order shown.
Prompt ==
    /\ ppc = "prompt"
    /\ \E count \in -1 .. Len(normalVideos) :
         \E chosen \in SubSeqs(Slice0(normalVideos, count), Len(normalVideos)) :
            /\ videosToDownload' = chosen
            /\ queue' = chosen
            /\ ppc' = IF chosen # << >> THEN "normals" ELSE "cursor"
    /\ UNCHANGED << storeVars, runVars, batchHist, channel, fetchVars, mergeVars, acq,
                    acqState, lastOutcome, attempted, chanHist, acqVars >>

\* A prompt of lines 159-181 rejects (the input stream is closed, the user
\* aborts): processChannel throws.
PromptFail ==
    /\ ppc = "prompt"
    /\ ppc' = "thrown"
    /\ UNCHANGED << storeVars, runVars, batchHist, channel, fetchVars, mergeVars,
                    videosToDownload, loopVars, chanHist, acqVars >>

\* Lines 194-197: the cursor is set to newLatestId and processChannel returns.
WriteCursor ==
    /\ ppc = "cursor"
    /\ IF newLatestId # NULL
       THEN /\ channels' = SetCursor(channels, channel[1].id, newLatestId)
            /\ cursorWrites' = cursorWrites + 1
       ELSE UNCHANGED << channels, cursorWrites >>
    /\ ppc' = "returned"
    /\ UNCHANGED << config, mode, cronVars, videos, runVars, batchHist, channel, fetchVars,
                    mergeVars, videosToDownload, loopVars, seen, acquired, insertLog,
                    acqVars >>

\* Line 195 with the store rejecting: processChannel throws.
WriteCursorFail ==
    /\ ppc = "cursor"
    /\ ppc' = "thrown"
    /\ UNCHANGED << storeVars, runVars, batchHist, channel, fetchVars, mergeVars,
                    videosToDownload, loopVars, chanHist, acqVars >>

(***************************************************************************)
(* The batch and channel level.                                            *)
(***************************************************************************)
Init ==
    /\ config = << "A" >>
    /\ InitStore
    /\ InitChannelRun
    /\ InitAcq

Next ==
    \/ RunStart \/ Sync \/ SyncFail \/ CallChannel \/ ChannelReturn \/ ChannelThrow
    \/ RunComplete
    \/ ListerReturn \/ Merge \/ AcqStart \/ AcqReturn \/ InsertVideo \/ InsertVideoFail
    \/ ReadPolicy \/ ReadPolicyFail \/ Prompt \/ PromptFail \/ WriteCursor
    \/ WriteCursorFail

Spec == Init /\ [][Next]_vars

(***************************************************************************)
(* The batch over several channels, with the configuration edited between  *)
(* runs (CHANNELS_TO_CHECK is read when the process starts).               *)
(***************************************************************************)
ConfigChoices == { << >>, << "B" >>, << "C" >>, << "B", "C" >>, << "C", "B" >> }

\* The process is restarted with an edited config.mjs.
ConfigChange ==
    /\ rpc = "idle"
    /\ \E cfg \in ConfigChoices \ {config} : config' = cfg
    /\ UNCHANGED << mode, cronVars, channels, videos, runVars, batchHist, chanVars, acqVars >>

InitBatch ==
    /\ config \in ConfigChoices
    /\ InitStore
    /\ InitChannelRun
    /\ InitAcq

NextBatch == Next \/ ConfigChange

SpecBatch == InitBatch /\ [][NextBatch]_vars

(***************************************************************************)
(* The channel runner over channel D, whose listings can disagree on a     *)
(* video's metadata.                                                       *)
(***************************************************************************)
InitMerge ==
    /\ config = << "D" >>
    /\ InitStore
    /\ InitChannelRun
    /\ InitAcq

SpecMerge == InitMerge /\ [][Next]_vars

\* The steps of a run that has been started: each is the completion of an
\* external call (Lister, downloadAndProcessVideo, store, prompt) or a step of
\* the program itself.
RunSteps ==
    \/ Sync \/ SyncFail \/ CallChannel \/ ChannelReturn \/ ChannelThrow \/ RunComplete
    \/ ListerReturn \/ Merge \/ AcqStart \/ AcqReturn \/ InsertVideo \/ InsertVideoFail
    \/ ReadPolicy \/ ReadPolicyFail \/ Prompt \/ PromptFail \/ WriteCursor
    \/ WriteCursorFail

InitLive ==
    /\ config = << "B", "C" >>
    /\ InitStore
    /\ InitChannelRun
    /\ InitAcq

\* The runs over the channels B and C when every external call completes in
\* the end: a step of a started run that can be taken is taken.  Nothing
\* obliges a further run to be started.
SpecLive == InitLive /\ [][Next]_vars /\ WF_vars(RunSteps)

(***************************************************************************)
(* downloadAndProcessVideo (lines 243-276) with downloadFormat (311-328)   *)
(* and processFile (282-294), subprocess by subprocess.  tempId is the     *)
(* number of the call.                                                     *)
(***************************************************************************)
Other(stream) == IF stream = "video" THEN "audio" ELSE "video"

Running(n) == { s \in Streams : procs[<< n, s >>] = "running" }

\* A faulty variant of Unlink: nothing is removed.
UnlinkNothing(fs, n, s) == fs

\* FORMAT_PRESETS: the ffmpeg_args of each preset (extension left out).
PresetKeys == {"amv", "avi_xvid", "mp3_cbr", "mp4", "mkv", "webm"}

FORMAT_PRESETS ==
    [k \in PresetKeys |->
       CASE k = "amv" -> << "-c:v", "amv", "-c:a", "adpcm_ima_amv", "-ar", "22050",
                            "-ac", "1", "-block_size", "1050" >>
         [] k = "avi_xvid" -> << "-c:v", "libxvid", "-q:v", "10", "-c:a", "libmp3lame",
                                 "-q:a", "5" >>
         [] k = "mp3_cbr" -> << "-vn", "-c:a", "libmp3lame", "-b:a", "128k" >>
         [] k = "mp4" -> << "-c:v", "copy", "-c:a", "copy" >>
         [] k = "mkv" -> << "-c:v", "copy", "-c:a", "copy" >>
         [] k = "webm" -> << "-c:v", "libvpx-vp9", "-b:v", "0", "-crf", "30",
                             "-c:a", "libopus", "-b:a", "128k" >>]

\* The values of TARGET_FORMAT considered: the preset keys, 'mp3' (named as an
\* option in config.mjs, not a preset key) and 'avi' (not a preset key either).
TargetFormats == PresetKeys \cup {"mp3", "avi"}

\* Line 283: FORMAT_PRESETS[TARGET_FORMAT] || FORMAT_PRESETS.mp4.
SelectedFormat(format) ==
    IF format \in PresetKeys THEN FORMAT_PRESETS[format] ELSE FORMAT_PRESETS["mp4"]

\* Lines 286-290: the arguments processFile gives to ffmpeg.
ProcessFileArgs(format) ==
    << "-y", "-i", "videoPath", "-i", "audioPath" >>
      \o (IF format # "mp3" /\ format # "mp4" /\ format # "mkv"
          THEN << "-vf", "scale", "-r", "frame_rate" >>
          ELSE << >>)
      \o SelectedFormat(format)
      \o << "finalOutputFile" >>

\* fs/promises unlink of the temporary file of stream s: the file is gone.
Unlink(fs, n, s) == fs \ { << n, s >> }

\* Line 270: the catch logs the error and does not rethrow, so the promise of
\* the call resolves.
SettleAfterCatch == "resolved"

\* The call: lines 244-267.  mkdir (line 250) may throw, which goes straight
\* to the catch and the finally; otherwise both downloadFormat promises are
\* created and each spawns its yt-dlp at once.
AcquisitionCall ==
    /\ apc \in {"idle", "returned"}
    /\ nacq < MaxAcq
    /\ nacq' = nacq + 1
    /\ \/ /\ apc' = "unlink_video"
          /\ UNCHANGED procs
       \/ /\ apc' = "downloading"
          /\ procs' = [procs EXCEPT ![<< nacq + 1, "video" >>] = "running",
                                    ![<< nacq + 1, "audio" >>] = "running"]
    /\ UNCHANGED << storeVars, runVars, batchHist, chanVars, files, transcode, outputs,
                    settled, TARGET_FORMAT, ffmpegArgs >>

\* A running yt-dlp puts its output file in place (-o outputFilename).
DownloadWrite ==
    /\ \E n \in AcqIds, s \in Streams :
         /\ procs[<< n, s >>] = "running"
         /\ << n, s >> \notin files
         /\ files' = files \cup { << n, s >> }
    /\ UNCHANGED << storeVars, runVars, batchHist, chanVars, nacq, apc, procs, transcode,
                    outputs, settled, TARGET_FORMAT, ffmpegArgs >>

\* A faulty variant of DownloadExit: ffmpeg is spawned as soon as one download
\* has resolved, without the join of Promise.all.
DownloadExitNoJoin ==
    /\ \E n \in AcqIds, s \in Streams :
         /\ procs[<< n, s >>] = "running"
         /\ \/ /\ << n, s >> \in files
               /\ procs' = [procs EXCEPT ![<< n, s >>] = "ok"]
               /\ IF n = nacq /\ apc = "downloading"
                  THEN /\ apc' = "transcoding"
                       /\ transcode' = [transcode EXCEPT ![n] = "running"]
                       /\ ffmpegArgs' = [ffmpegArgs EXCEPT ![n] = ProcessFileArgs(TARGET_FORMAT)]
                  ELSE UNCHANGED << apc, transcode, ffmpegArgs >>
            \/ /\ procs' = [procs EXCEPT ![<< n, s >>] = "failed"]
               /\ apc' = IF n = nacq /\ apc = "downloading" THEN "unlink_video" ELSE apc
               /\ UNCHANGED << transcode, ffmpegArgs >>
    /\ UNCHANGED << storeVars, runVars, batchHist, chanVars, nacq, files, outputs, settled,
                    TARGET_FORMAT >>

\* Lines 321-326: a yt-dlp closes.  With code 0 (its file is in place) the
\* promise resolves, and when the sibling has resolved too Promise.all
\* resolves and processFile spawns ffmpeg (lines 268-291).  With another code,
\* or on 'error', the promise rejects: Promise.all rejects at once, the
\* sibling keeps running, and control goes to the catch and the finally.
DownloadExit ==
    /\ \E n \in AcqIds, s \in Streams :
         /\ procs[<< n, s >>] = "running"
         /\ \/ /\ << n, s >> \in files
               /\ procs' = [procs EXCEPT ![<< n, s >>] = "ok"]
               /\ IF n = nacq /\ apc = "downloading" /\ procs[<< n, Other(s) >>] = "ok"
                  THEN /\ apc' = "transcoding"
                       /\ transcode' = [transcode EXCEPT ![n] = "running"]
                       /\ ffmpegArgs' = [ffmpegArgs EXCEPT ![n] = ProcessFileArgs(TARGET_FORMAT)]
                  ELSE UNCHANGED << apc, transcode, ffmpegArgs >>
            \/ /\ procs' = [procs EXCEPT ![<< n, s >>] = "failed"]
               /\ apc' = IF n = nacq /\ apc = "downloading" THEN "unlink_video" ELSE apc
               /\ UNCHANGED << transcode, ffmpegArgs >>
    /\ UNCHANGED << storeVars, runVars, batchHist, chanVars, nacq, files, outputs, settled,
                    TARGET_FORMAT >>

\* Lines 291 and 303-307: ffmpeg closes; with code 0 the output file is there,
\* otherwise processFile throws into the catch of line 270.
TranscodeExit ==
    /\ apc = "transcoding"
    /\ \/ /\ transcode' = [transcode EXCEPT ![nacq] = "ok"]
          /\ outputs' = outputs \cup {nacq}
       \/ /\ transcode' = [transcode EXCEPT ![nacq] = "failed"]
          /\ UNCHANGED outputs
    /\ apc' = "unlink_video"
    /\ UNCHANGED << storeVars, runVars, batchHist, chanVars, nacq, procs, files, settled,
                    TARGET_FORMAT, ffmpegArgs >>

\* Line 273: unlink(tempVideoFile).catch(() => {}).  While the yt-dlp that
\* owns the file is still running the unlink can fail (the file is in use),
\* which is swallowed.
UnlinkVideo ==
    /\ apc = "unlink_video"
    /\ \/ files' = Unlink(files, nacq, "video")
       \/ /\ procs[<< nacq, "video" >>] = "running"
          /\ UNCHANGED files
    /\ apc' = "unlink_audio"
    /\ UNCHANGED << storeVars, runVars, batchHist, chanVars, nacq, procs, transcode,
                    outputs, settled, TARGET_FORMAT, ffmpegArgs >>

\* Line 274: unlink(tempAudioFile).catch(() => {}), and the call returns.
UnlinkAudio ==
    /\ apc = "unlink_audio"
    /\ \/ files' = Unlink(files, nacq, "audio")
       \/ /\ procs[<< nacq, "audio" >>] = "running"
          /\ UNCHANGED files
    /\ apc' = "returned"
    /\ settled' = [settled EXCEPT ![nacq] = SettleAfterCatch]
    /\ UNCHANGED << storeVars, runVars, batchHist, chanVars, nacq, procs, transcode,
                    outputs, TARGET_FORMAT, ffmpegArgs >>

NextAcq ==
    \/ AcquisitionCall \/ DownloadWrite \/ DownloadExit \/ TranscodeExit
    \/ UnlinkVideo \/ UnlinkAudio

SpecAcq == Init /\ [][NextAcq]_vars

\* The same, for a process configured with any of the values of TARGET_FORMAT.
InitFormat ==
    /\ config = << "A" >>
    /\ InitStore
    /\ InitChannelRun
    /\ InitAcqWith(TargetFormats)

SpecFormat == InitFormat /\ [][NextAcq]_vars

(***************************************************************************)
(* Scheduler mode (startApp, lines 422-438): the cron callback calls       *)
(* runAutomation at every trigger.  Each call is followed here at the      *)
(* level of its store calls and of the processChannel call it is in; the   *)
(* calls share the process's one database.                                 *)
(***************************************************************************)
\* Lines 425-428: the callback of cron.schedule fires and calls
\* runAutomation() without awaiting it and without looking at earlier calls.
CronTrigger ==
    /\ mode.ENABLE_SCHEDULER
    /\ triggers < MaxTriggers
    /\ triggers' = triggers + 1
    /\ jobs' = [jobs EXCEPT ![triggers + 1].pc = "sync"]
    /\ UNCHANGED << config, mode, channels, videos, runVars, batchHist, chanVars, acqVars >>

\* Lines 57-80 of the call j: the sync and line 79, or a store call rejecting
\* after the calls before it took effect (catch of line 90).
JobSync(j) ==
    /\ jobs[j].pc = "sync"
    /\ \/ LET table == ApplyOps(channels, SyncOps(channels, config))
          IN /\ channels' = table
             /\ jobs' = [jobs EXCEPT ![j].pc = "loop",
                                     ![j].channelsToProcess = ActiveChannels(table)]
       \/ /\ \E k \in DOMAIN SyncOps(channels, config) :
               channels' = ApplyOps(channels, SubSeq(SyncOps(channels, config), 1, k - 1))
          /\ jobs' = [jobs EXCEPT ![j].pc = "done"]
    /\ UNCHANGED << config, mode, videos, triggers, runVars, batchHist, chanVars, acqVars >>

\* Lines 82-86 of the call j: processChannel is called with the next row.
JobCallChannel(j) ==
    /\ jobs[j].pc = "loop"
    /\ jobs[j].channelsToProcess # << >>
    /\ jobs' = [jobs EXCEPT ![j].pc = "channel",
                            ![j].channel = << Head(jobs[j].channelsToProcess) >>,
                            ![j].channelsToProcess = Tail(jobs[j].channelsToProcess)]
    /\ UNCHANGED << config, mode, channels, videos, triggers, runVars, batchHist, chanVars,
                    acqVars >>

\* Lines 141-147 of the call j: processChannel has found a new video of the
\* channel and calls downloadAndProcessVideo with it.
JobAcquire(j) ==
    /\ jobs[j].pc = "channel"
    /\ \E i \in DOMAIN Timeline(jobs[j].channel[1].url) :
          jobs' = [jobs EXCEPT ![j].pc = "acquiring",
                               ![j].video = Timeline(jobs[j].channel[1].url)[i].id]
    /\ UNCHANGED << config, mode, channels, videos, triggers, runVars, batchHist, chanVars,
                    acqVars >>

\* The processChannel call of j ends: it returns after the acquisition, with
\* the video recorded (line 145) and the cursor written (lines 194-197); it
\* returns with nothing new (lines 123, 132); or it throws, which ends the
\* call j in the catch of line 90.
JobChannelEnd(j) ==
    /\ \/ /\ jobs[j].pc = "acquiring"
          /\ channels' = SetCursor(channels, jobs[j].channel[1].id, jobs[j].video)
          /\ videos' = IF \E row \in videos : row.id = jobs[j].video THEN videos
                        ELSE videos \cup { [id |-> jobs[j].video,
                                            channel_id |-> jobs[j].channel[1].id,
                                            upload_date |-> DateOfId(jobs[j].video)] }
          /\ jobs' = [jobs EXCEPT ![j].pc = "loop", ![j].channel = << >>,
                                  ![j].video = NULL]
       \/ /\ jobs[j].pc = "channel"
          /\ jobs' = [jobs EXCEPT ![j].pc = "loop", ![j].channel = << >>]
          /\ UNCHANGED << channels, videos >>
       \/ /\ jobs[j].pc \in {"channel", "acquiring"}
          /\ jobs' = [jobs EXCEPT ![j].pc = "done", ![j].channel = << >>,
                                  ![j].video = NULL]
          /\ UNCHANGED << channels, videos >>
    /\ UNCHANGED << config, mode, triggers, runVars, batchHist, chanVars, acqVars >>

\* Lines 88-95 of the call j: the loop is over and the call ends.
JobComplete(j) ==
    /\ jobs[j].pc = "loop"
    /\ jobs[j].channelsToProcess = << >>
    /\ jobs' = [jobs EXCEPT ![j].pc = "done"]
    /\ UNCHANGED << config, mode, channels, videos, triggers, runVars, batchHist, chanVars,
                    acqVars >>

InitCron ==
    /\ config = << "B", "C" >>
    /\ InitStore
    /\ InitChannelRun
    /\ InitAcq
    /\ mode.ENABLE_SCHEDULER

NextCron ==
    \/ CronTrigger
    \/ \E j \in JobIds :
          JobSync(j) \/ JobCallChannel(j) \/ JobAcquire(j) \/ JobChannelEnd(j)
             \/ JobComplete(j)

SpecCron == InitCron /\ [][NextCron]_vars

(***************************************************************************)
(* Properties.                                                             *)
(***************************************************************************)
\* The stored cursor of the channel processChannel is running for.
StoredCursor == channels[channel[1].id].last_video_id

NoDuplicates(s) == \A i, j \in DOMAIN s : s[i] = s[j] => i = j

IdSeq(s) == [i \in DOMAIN s |-> s[i].id]

ResultIds(r) == Ids(r.shorts) \cup Ids(r.normalVideos)

\* C1: when a batch has ended in which processChannel threw for some channel,
\* processChannel was still invoked for every active channel of the batch.
C1_BatchGoesOnAfterThrow ==
    (rpc = "idle" /\ thrown # {}) => invoked = batch

\* C2: from one state to the next, the upload date of the video a channel's
\* last_video_id points to never decreases.
C2_CursorNeverMovesBack ==
    [][\A i \in DOMAIN channels :
         DateOfId(channels'[i].last_video_id) >= DateOfId(channels[i].last_video_id)]_vars

\* C3: every row a channel run inserts into videos follows an acquisition
\* whose downloads and transcode succeeded.
C3_RecordOnlyAfterSuccess ==
    \A r \in insertLog : r.outcome = "ok"

\* C4: once an acquisition has returned and the subprocesses it started have
\* exited, neither of its temporary files exists.
C4_TemporaryFilesRemoved ==
    \A n \in AcqIds :
        (settled[n] # "pending" /\ Running(n) = {})
            => \A s \in Streams : << n, s >> \notin files

\* C5: an acquisition whose transcode failed (after both downloads succeeded)
\* has, once it has returned, no temporary file left, and its promise is
\* resolved, not rejected.
C5_TranscodeFailureCleanedUp ==
    \A n \in AcqIds :
        (transcode[n] = "failed" /\ (n < nacq \/ apc = "returned"))
            => /\ settled[n] = "resolved"
               /\ \A s \in Streams : << n, s >> \notin files

\* C5, its case: an acquisition has returned after its transcode failed.
C5_TranscodeFailedAndReturned ==
    \E n \in AcqIds :
        /\ transcode[n] = "failed"
        /\ settled[n] # "pending"
        /\ procs[<< n, "video" >>] = "ok" /\ procs[<< n, "audio" >>] = "ok"

AcquisitionOutstanding ==
    \/ acqState = "running"
    \/ ~ (Ids(shorts) \cup Ids(videosToDownload) \subseteq Range(attempted))

\* C7: while an acquisition of the channel run is pending or in flight the
\* stored cursor is the one the run started with; the cursor is written only
\* after every short and every chosen normal video was attempted.
C7_CursorWrittenLast ==
    channel # << >> =>
        /\ AcquisitionOutstanding => StoredCursor = channel[1].last_video_id
        /\ cursorWrites > 0 => ~ AcquisitionOutstanding

\* C7, its case: an acquisition is in flight and another one is pending.
C7_InFlightAndPending ==
    /\ acqState = "running"
    /\ queue # << >>

\* C8: downloadAndProcessVideo is never called with an id that an earlier
\* run of the channel acquired and recorded.
C8_NoReprocessing ==
    acqState = "running" => acq[1].id \notin acquired[channel[1].url]

\* C9: in a channel run whose merged listing holds the cursor's video, the
\* new videos are exactly the merged videos no earlier run has merged.
C9_NewSetExact ==
    (ppc \notin {"none", "fetch"} /\ channel[1].last_video_id \in Ids(sortedVideos))
        => Ids(shorts) \cup Ids(normalVideos) = Ids(sortedVideos) \ seen[channel[1].url]

\* C9, the case of equal upload dates: the cursor is the short a3, the normal
\* video a4 of the same day is listed for the first time, and nothing is new.
C9_SameDayVideoMissed ==
    /\ ppc = "returned"
    /\ channel[1].last_video_id = "a3"
    /\ "a4" \in Ids(sortedVideos)
    /\ "a4" \notin seen["A"]
    /\ newVideos = << >>

\* C10: the merged collection holds each id of the two view results exactly
\* once, so no id is twice in shorts and normalVideos and none is attempted
\* twice in one channel run.
C10_MergedIdsUnique ==
    (ppc # "none" /\ pendingViews = {}) =>
        LET merged == UniqueVideos(results["videos"], results["shorts"])
            all == ResultIds(results["videos"]) \cup ResultIds(results["shorts"])
        IN /\ NoDuplicates(IdSeq(merged))
           /\ Ids(merged) = all
           /\ Len(merged) = Cardinality(all)
           /\ NoDuplicates(IdSeq(shorts \o normalVideos))
           /\ NoDuplicates(attempted)

\* C10, its case: both views returned the same id and two videos were attempted.
C10_OverlappingViews ==
    /\ ResultIds(results["videos"]) \cap ResultIds(results["shorts"]) # {}
    /\ Len(attempted) >= 2

\* C11: of the ids both views returned, the merged collection keeps the
\* instances of one and the same view, whatever their classification.
C11_OneViewWins ==
    (ppc \notin {"none", "fetch"}) =>
        LET both == ResultIds(results["videos"]) \cap ResultIds(results["shorts"])
        IN \E w \in Views :
              \A i \in DOMAIN sortedVideos :
                  sortedVideos[i].id \in both => sortedVideos[i].tab = w

\* Whether the video v is an element of the sequence s.
Holds(s, v) == \E i \in DOMAIN s : s[i] = v

\* At most 180 seconds long and higher than wide.
ShortShape(v) == v.duration <= 180 /\ v.height > v.width

ExampleSorted ==
    << Video("c5", 20250705, 90, 720, 1280), Video("c4", 20250704, 90, 720, 1280),
       Video("c3", 20250703, 90, 720, 1280), Video("c2", 20250702, 90, 720, 1280),
       Video("c1", 20250701, 90, 720, 1280) >>

\* C14: when the cursor's id is at position i of the sorted merged sequence,
\* the new videos are its elements before i, in order; when there is no cursor
\* or its id is not in the sequence, they are the whole sequence.  For
\* [c5,c4,c3,c2,c1] and cursor c3 they are [c5,c4].
C14_Truncation ==
    /\ (ppc \notin {"none", "fetch"}) =>
          LET c == channel[1].last_video_id
              at == { i \in DOMAIN sortedVideos : sortedVideos[i].id = c }
          IN IF c # NULL /\ at # {}
             THEN \A i \in at :
                     /\ Len(newVideos) = i - 1
                     /\ \A k \in 1 .. i - 1 : newVideos[k] = sortedVideos[k]
             ELSE newVideos = sortedVideos
    /\ IdSeq(NewVideos(ExampleSorted, "c3")) = << "c5", "c4" >>
    /\ NewVideos(ExampleSorted, NULL) = ExampleSorted
    /\ NewVideos(ExampleSorted, "c0") = ExampleSorted

\* C14, its case: the cursor's video is third in the sorted sequence and the
\* two videos before it are the new ones.
C14_CursorThird ==
    /\ ppc \notin {"none", "fetch"}
    /\ Len(sortedVideos) >= 3
    /\ sortedVideos[3].id = channel[1].last_video_id
    /\ Len(newVideos) = 2

\* C15: a channel run whose newest merged candidate is the cursor's video, or
\* whose views returned no candidate, has returned without an acquisition,
\* without a row inserted into videos and with the stored cursor unchanged.
C15_NoNewContent ==
    (/\ ppc \notin {"none", "fetch"}
     /\ \/ sortedVideos = << >>
        \/ sortedVideos[1].id = channel[1].last_video_id)
        => /\ ppc = "returned"
           /\ attempted = << >>
           /\ acqState = "none"
           /\ insertLog = {}
           /\ cursorWrites = 0
           /\ StoredCursor = channel[1].last_video_id

\* C15, its case: a run has returned whose newest candidate is the cursor's video.
C15_NewestIsCursor ==
    /\ ppc = "returned"
    /\ sortedVideos # << >>
    /\ sortedVideos[1].id = channel[1].last_video_id

\* The rows of the table videos that belong to the channel with the given id.
VideosOf(table, id) == { r \in table : r.channel_id = id }

\* C16: a completed sync step leaves exactly one row, an active one, for every
\* configured url, and every row whose url is not configured inactive; a row
\* it creates has no cursor; no step removes a row of channels or of videos.
C16_Reconciliation ==
    [][/\ (rpc = "sync" /\ rpc' = "loop") =>
            /\ \A k \in DOMAIN config :
                  /\ Cardinality({ i \in DOMAIN channels' : channels'[i].url = config[k] }) = 1
                  /\ \A i \in DOMAIN channels' :
                        channels'[i].url = config[k] => channels'[i].is_active = 1
            /\ \A i \in DOMAIN channels' :
                  (\A k \in DOMAIN config : config[k] # channels'[i].url)
                      => channels'[i].is_active = 0
       /\ \A i \in DOMAIN channels' \ DOMAIN channels :
             channels'[i].last_video_id = NULL
       /\ Len(channels') >= Len(channels)
       /\ \A i \in DOMAIN channels :
             channels'[i].id = channels[i].id /\ channels'[i].url = channels[i].url
       /\ videos \subseteq videos']_vars

\* C16, its case: after a sync step one stored channel is active and another,
\* which has a row in videos, is inactive.
C16_OneActiveOneRetired ==
    /\ rpc = "loop"
    /\ \E i \in DOMAIN channels : channels[i].is_active = 1
    /\ \E i \in DOMAIN channels :
          channels[i].is_active = 0 /\ VideosOf(videos, i) # {}

\* C17: no sync step, and no step while the channel is inactive, changes a
\* channel's last_video_id or its rows in videos, and processChannel is called
\* with the stored cursor; so a channel removed from the configuration and
\* added back is processed with the cursor and the rows it had.
C17_StateRetained ==
    [][/\ \A i \in DOMAIN channels :
             (rpc = "sync" \/ channels[i].is_active = 0 \/ channels'[i].is_active = 0)
                 => /\ channels'[i].last_video_id = channels[i].last_video_id
                    /\ VideosOf(videos', i) = VideosOf(videos, i)
       /\ (channel = << >> /\ channel' # << >>)
             => channel'[1].last_video_id = channels[channel'[1].id].last_video_id]_vars

\* C17, its case: a channel that was deactivated is processed again, with a
\* cursor and a row in videos.
C17_ReactivatedWithCursor ==
    /\ channel # << >>
    /\ channel[1].id \in deactivated
    /\ channel[1].last_video_id # NULL
    /\ VideosOf(videos, channel[1].id) # {}

\* C18: the batch is the set of rows active after the sync step;
\* processChannel is called only for rows of the batch, at most once each,
\* and by the end of the run for every one of them; no step changes the cursor
\* of an inactive channel.
C18_OnlyActiveChannelsRun ==
    [][/\ (rpc = "sync" /\ rpc' = "loop")
             => batch' = { i \in DOMAIN channels' : channels'[i].is_active = 1 }
       /\ (channel = << >> /\ channel' # << >>)
             => /\ channel'[1].id \in batch
                /\ channel'[1].id \notin invoked
                /\ channels[channel'[1].id].is_active = 1
       /\ (rpc = "loop" /\ rpc' = "idle") => invoked' = batch'
       /\ \A i \in DOMAIN channels :
             channels[i].is_active = 0
                 => channels'[i].last_video_id = channels[i].last_video_id]_vars

\* C19: a view whose Lister call failed has an empty result; the channel run
\* stays in its fetch until the sibling's call has returned, then goes on with
\* exactly the candidates of the views that did not fail, and it throws, if at
\* all, only later, with new videos in hand (a store call or a prompt rejects).
C19_FailedViewDegrades ==
    /\ \A v \in failedViews :
          results[v].shorts = << >> /\ results[v].normalVideos = << >>
    /\ (failedViews # {} /\ pendingViews # {}) => ppc = "fetch"
    /\ (failedViews # {} /\ ppc \notin {"none", "fetch"}) =>
          /\ pendingViews = {}
          /\ Ids(sortedVideos) = UNION { ResultIds(results[v]) : v \in Views \ failedViews }
    /\ (failedViews # {} /\ ppc = "thrown") => newVideos # << >>

\* C19, its case: the Lister call of the shorts view failed and a candidate of
\* the videos view is being acquired.
C19_SiblingCarriesOn ==
    /\ failedViews = {"shorts"}
    /\ acqState = "running"
    /\ acq[1].tab = "videos"

\* C20: the two downloads of an acquisition are started together; the
\* transcoder has been started only if both downloads succeeded; after a
\* failed download it is never started and there is no output file.
C20_JoinBeforeTranscode ==
    \A n \in AcqIds :
        /\ (procs[<< n, "video" >>] = "none") <=> (procs[<< n, "audio" >>] = "none")
        /\ transcode[n] # "none"
              => (procs[<< n, "video" >>] = "ok" /\ procs[<< n, "audio" >>] = "ok")
        /\ (\E s \in Streams : procs[<< n, s >>] = "failed")
              => (transcode[n] = "none" /\ n \notin outputs)
        /\ n \in outputs => transcode[n] = "ok"

\* C20, its case: one acquisition was transcoded after both downloads, and
\* another had one download fail while its sibling succeeded.
C20_JoinedAndFailed ==
    \E n, m \in AcqIds :
        /\ transcode[n] = "ok"
        /\ \E s \in Streams :
              procs[<< m, s >>] = "failed" /\ procs[<< m, Other(s) >>] = "ok"
        /\ settled[m] = "resolved"

\* How often downloadAndProcessVideo was called with the id in this channel run.
Attempts(id) == Cardinality({ k \in DOMAIN attempted : attempted[k] = id })

MergeOutcome(videosResult, shortsResult, cursor) ==
    LET new == NewVideos(SortedVideos(UniqueVideos(videosResult, shortsResult)), cursor)
    IN [shorts |-> SelectSeq(new, IsShort),
        normalVideos |-> SelectSeq(new, IsNormal),
        newLatestId |-> IF new = << >> THEN NULL ELSE new[1].id]

\* C22: once both view fetches have returned, in whichever order, the merge
\* step gives the shorts, the normal videos and the newest id that are a
\* function of the videos view's result, the shorts view's result and the
\* cursor alone; identical results and cursor give identical outputs.
C22_MergeDeterministic ==
    [][(ppc = "fetch" /\ pendingViews = {}) =>
          LET out == MergeOutcome(results["videos"], results["shorts"],
                                  channel[1].last_video_id)
          IN /\ shorts' = out.shorts
             /\ normalVideos' = out.normalVideos
             /\ newLatestId' = out.newLatestId]_vars

\* C22, its case: both fetches have returned, the shorts view's first, and the
\* two results have an id in common.
C22_ShortsViewFirst ==
    /\ ppc = "fetch"
    /\ pendingViews = {}
    /\ arrival = << "shorts", "videos" >>
    /\ ResultIds(results["videos"]) \cap ResultIds(results["shorts"]) # {}

\* A record that has no upload date or one before DOWNLOAD_AFTER_DATE.
BelowFloor(v) == v.upload_date = NoDate \/ v.upload_date < DOWNLOAD_AFTER_DATE

\* The ids of the videos every report of which is below the floor or undated.
NeverEligible ==
    { v.id : v \in { w \in AllVideos : \A r \in Reported(w) : BelowFloor(r) } }

\* C23: no candidate dated before DOWNLOAD_AFTER_DATE or without an upload
\* date is among the merged, new, short or normal videos (so none is offered
\* for selection), is chosen, queued or acquired, is recorded in videos, or is
\* stored as a channel's last_video_id.
C23_UploadDateFloor ==
    /\ \A s \in { sortedVideos, newVideos, shorts, normalVideos, videosToDownload,
                  queue, acq } :
          \A i \in DOMAIN s : ~ BelowFloor(s[i])
    /\ \A k \in DOMAIN attempted : attempted[k] \notin NeverEligible
    /\ \A row \in videos : ~ BelowFloor(row) /\ row.id \notin NeverEligible
    /\ \A c \in DOMAIN channels : channels[c].last_video_id \notin NeverEligible
    /\ newLatestId \notin NeverEligible

\* C23, its case: the Lister reported an entry below the floor or undated in
\* this channel run, and the run acquired and recorded a video and stored the
\* cursor.
C23_DroppedAndAcquired ==
    /\ ppc = "returned"
    /\ dropped # {}
    /\ attempted # << >>
    /\ \E row \in videos : row.channel_id = channel[1].id
    /\ StoredCursor # NULL

\* The position of the video of the given id in s.
PositionOf(s, id) == CHOOSE i \in DOMAIN s : s[i].id = id

\* s is t with some elements left out, the order kept (s, t without repeats).
IsSubsequence(s, t) ==
    /\ NoDuplicates(s)
    /\ s = SelectSeq(t, LAMBDA v : v \in Range(s))

\* C24: once the merge has run, the sorted merged sequence holds the merged
\* videos, newest upload date first, videos of one date in the order of their
\* first insertion into the map; the new videos are its beginning, shorts and
\* normal videos are subsequences of the new videos; and the shorts are
\* attempted in that order, newest first.
C24_OrderPreserved ==
    (ppc \notin {"none", "fetch"}) =>
        LET unique == UniqueVideos(results["videos"], results["shorts"])
        IN /\ Len(sortedVideos) = Len(unique)
           /\ Range(sortedVideos) = Range(unique)
           /\ \A i, j \in DOMAIN sortedVideos :
                 i < j =>
                    /\ sortedVideos[i].upload_date >= sortedVideos[j].upload_date
                    /\ sortedVideos[i].upload_date = sortedVideos[j].upload_date
                          => PositionOf(unique, sortedVideos[i].id)
                               < PositionOf(unique, sortedVideos[j].id)
           /\ newVideos = SubSeq(sortedVideos, 1, Len(newVideos))
           /\ IsSubsequence(shorts, newVideos)
           /\ IsSubsequence(normalVideos, newVideos)
           /\ LET n == IF Len(attempted) < Len(shorts) THEN Len(attempted) ELSE Len(shorts)
              IN SubSeq(attempted, 1, n) = SubSeq(IdSeq(shorts), 1, n)
           /\ \A i, j \in DOMAIN shorts :
                 i < j => shorts[i].upload_date >= shorts[j].upload_date

\* C24, its case: two videos of one upload date were merged, and two shorts of
\* different dates have been attempted.
C24_TieAndTwoShorts ==
    /\ \E i, j \in DOMAIN sortedVideos :
          i < j /\ sortedVideos[i].upload_date = sortedVideos[j].upload_date
    /\ Len(shorts) = 2
    /\ shorts[1].upload_date > shorts[2].upload_date
    /\ Len(attempted) >= 2

\* The skip policy is in effect: --skip-videos in one-shot mode, the stored
\* setting 'skip' in scheduler mode.
SkipInEffect ==
    \/ mode.ENABLE_SCHEDULER /\ mode.normal_video_mode = "skip"
    \/ ~ mode.ENABLE_SCHEDULER /\ mode.SKIP_NORMAL_VIDEOS

\* Under the skip policy no normal video is offered, chosen, attempted or
\* recorded in the channel run.
NoNormalVideoTouched ==
    /\ ppc \notin {"prompt", "normals"}
    /\ videosToDownload = << >>
    /\ \A k \in DOMAIN attempted : attempted[k] \notin Ids(normalVideos)
    /\ \A e \in insertLog : e.id \notin Ids(normalVideos)

IsPassthrough(ffmpeg_args) ==
    \E i \in DOMAIN ffmpeg_args :
        /\ i < Len(ffmpeg_args)
        /\ ffmpeg_args[i] = "-c:v"
        /\ ffmpeg_args[i + 1] = "copy"

\* The arguments hold the scale and frame-rate parameters.
HasScaleAndRate(args) ==
    \E i \in DOMAIN args : args[i] = "-vf" \/ args[i] = "-r"

\* C26: whenever ffmpeg has been spawned for an acquisition, its arguments
\* hold the scale and frame-rate parameters exactly if the profile selected
\* from FORMAT_PRESETS for TARGET_FORMAT is not a stream-copy profile.
C26_ScaleIffNotPassthrough ==
    \A n \in AcqIds :
        transcode[n] # "none" =>
            (HasScaleAndRate(ffmpegArgs[n]) <=> ~ IsPassthrough(SelectedFormat(TARGET_FORMAT)))

\* The yt-dlp download subprocesses that are running.
RunningDownloads == { k \in AcqIds \X Streams : procs[k] = "running" }

\* C27: a call of downloadAndProcessVideo is made only when every earlier
\* call has returned, and at any moment at most two yt-dlp download
\* subprocesses are running, also after an acquisition has returned early
\* because one of its downloads failed.
C27_AtMostTwoDownloads ==
    /\ \A n \in AcqIds : n < nacq => settled[n] # "pending"
    /\ Cardinality(RunningDownloads) <= 2

\* The runAutomation call j is inside a processChannel call.
InProcessChannel(j) == jobs[j].pc \in {"channel", "acquiring"}

\* C28: in scheduler mode no two runAutomation calls are inside processChannel
\* for the same channel at the same time (so no cursor has two writers and
\* no video is being acquired by two calls).
C28_NoOverlappingRuns ==
    \A j1, j2 \in JobIds :
        (j1 # j2 /\ InProcessChannel(j1) /\ InProcessChannel(j2))
            => jobs[j1].channel[1].id # jobs[j2].channel[1].id

\* C29: the table a completed sync step leaves is left as it is by a second
\* sync with the same configuration, and it has no two rows of one url.
C29_SyncIdempotent ==
    [][(rpc = "sync" /\ rpc' = "loop") =>
          /\ ApplyOps(channels', SyncOps(channels', config)) = channels'
          /\ \A i, j \in DOMAIN channels' :
                channels'[i].url = channels'[j].url => i = j]_vars

\* C29, its case: a sync step of a later run has completed on a table with an
\* active row that has a cursor and an inactive row.
C29_SyncedAgain ==
    /\ rpc = "loop"
    /\ runs >= 2
    /\ invoked = {}
    /\ \E i \in DOMAIN channels :
          channels[i].is_active = 1 /\ channels[i].last_video_id # NULL
    /\ \E i \in DOMAIN channels : channels[i].is_active = 0

\* The ids of the rows of channels that are active.
ActiveIds == { row.id : row \in Range(ActiveChannels(channels)) }

\* C30 as stated: a started run finishes in the end, and then processChannel
\* was called for every active channel or a channel's processChannel threw.
C30_FinishesAllOrThrown ==
    (rpc # "idle") ~> (rpc = "idle" /\ (ActiveIds \subseteq invoked \/ thrown # {}))

\* C30: when every external call completes, a started run finishes in the
\* end, and then processChannel was called for every row selected at line 79
\* (none when the sync did not get that far) or for the rows up to the one
\* whose processChannel threw.
C30_RunFinishes ==
    (rpc # "idle") ~>
        (/\ rpc = "idle"
         /\ thrown \subseteq invoked
         /\ invoked \subseteq batch
         /\ Cardinality(thrown) <= 1
         /\ thrown = {} => invoked = batch)

\* C30, its case: a second run has finished with every selected channel
\* processed, and videos have been recorded.
C30_SecondRunFinished ==
    /\ rpc = "idle"
    /\ runs >= 2
    /\ batch # {}
    /\ invoked = batch
    /\ thrown = {}
    /\ videos # {}

=============================================================================
